---- MODULE Spec2Model ----
(***************************************************************************)
(* Art style classifier service (app.py, model.py) and the WikiArt seeder  *)
(* (seed_wikiart.py).                                                      *)
(*                                                                         *)
(*   Spec         the HTTP service process: /health, /styles, /gallery,    *)
(*                /predict-style, the lazy model singleton and the weight  *)
(*                file download, with process crashes and restarts.        *)
(*   SpecPredict  predict_pil applied to every bounded input.              *)
(*   SpecGallery  /gallery over every bounded artworks table.              *)
(*   SpecSeeder   successive runs of the seeder over one dataset slice,    *)
(*                with failing uploads and cancelled runs.                 *)
(***************************************************************************)
EXTENDS Integers, Sequences, FiniteSets, TLC

\* ---------------------------------------------------------------- bounds
MaxClasses == 3   \* label maps and weight files have 1..MaxClasses classes
MaxProb == 3      \* softmax outputs are drawn from 1..MaxProb
MaxInflight == 2  \* /predict-style requests suspended at `await file.read()`
MaxRows == 3      \* rows of the artworks table in SpecGallery
DsLen == 3        \* records of the dataset slice
MaxRuns == 2      \* seeder runs
PER_STYLE == 2    \* the PER_STYLE environment variable

VARIABLES
  \* --- service process (app.py)
  idx_to_style,   \* the label map, 0..n-1 -> style name
  MODEL_URL,      \* "" when the environment variable is not set
  remote,         \* class count of the weights served at MODEL_URL
  fs_model,       \* the file at MODEL_PATH
  fs_tmp,         \* the file at MODEL_PATH.with_suffix(".pt.tmp")
  _model,         \* the module-level singleton
  gm_pc,          \* position of the running get_model call ("idle": none)
  gm_req,         \* the request whose handler is inside get_model
  pending,        \* predict_style handlers suspended at `await file.read()`
  loads,          \* load_model calls that returned, in this process
  resp,           \* the HTTP response the last step sent (NoResp: none)
  DATABASE_URL,   \* "" when the environment variable is not set
  artworks,       \* committed rows of the artworks table, id -> row
  \* --- predict_pil in isolation
  call,           \* arguments of the last predict_pil call
  result,         \* what it returned
  \* --- seeder process (seed_wikiart.py)
  ds,             \* the dataset slice, a sequence of records
  whitelist,      \* the style whitelist ({}: none)
  run,            \* number of the current run
  pc,             \* "idle", "loop", "done" or "aborted"
  pos,            \* index of the next record of ds
  saved_per_style,\* style -> count, this run
  txn,            \* the table as the open transaction sees it
  cloud,          \* public ids hosted by the image host
  uploads,        \* upload_to_cloudinary calls of this run
  failed,         \* whether one of them raised
  prev,           \* how the previous run ended, and its `failed`
  last            \* what the last loop iteration did

svcVars == <<idx_to_style, MODEL_URL, remote, fs_model, fs_tmp, _model, gm_pc,
             gm_req, pending, loads, resp, DATABASE_URL>>
pureVars == <<call, result>>
seedVars == <<ds, whitelist, run, pc, pos, saved_per_style, txn, cloud, uploads,
             failed, prev, last>>
vars == <<svcVars, artworks, pureVars, seedVars>>

\* ---------------------------------------------------------------- helpers
Min(a, b) == IF a < b THEN a ELSE b

StyleNames == <<"Impressionism", "Cubism", "Baroque", "Realism", "Rococo", "Pop_Art">>

\* model.load_label_map: the int-keyed map of idx_to_style.json
load_label_map(n) == [i \in 0..(n - 1) |-> StyleNames[i + 1]]

\* ------------------------------------------------------------ predict_pil
Err(name) == [ok |-> FALSE, error |-> name, predicted |-> <<>>, top_k |-> <<>>]

\* torch.topk(probs, k): the index sequences it may return. It raises unless
\* 0 <= k <= len(probs); the order among equal values is not specified.
TopK(probs, k) ==
  { idxs \in [1..k -> DOMAIN probs] :
      /\ \A i, j \in 1..k : i # j => idxs[i] # idxs[j]
      /\ \A i \in 1..k : \A j \in 1..k : i < j => probs[idxs[i]] >= probs[idxs[j]]
      /\ \A i \in 1..k : \A c \in DOMAIN probs :
            (\A j \in 1..k : idxs[j] # c) => probs[c] <= probs[idxs[i]] }

\* faulty variant of Clamp: top_k is passed to torch.topk as it came
ClampNone(top_k, n) == top_k
\* top_k = min(top_k, probs.shape[0])
Clamp(top_k, n) == Min(top_k, n)

\* the results list built from (vals, idxs)
Results(probs, idxs, labels) ==
  [i \in 1..Len(idxs) |->
     [index |-> idxs[i], style |-> labels[idxs[i]], prob |-> probs[idxs[i]]]]

\* model.predict_pil on an image whose softmax output is probs: the set of values
\* it may return (more than one only when probabilities tie).
predict_pil(probs, top_k, labels) ==
  LET n == Cardinality(DOMAIN probs)
      k == Clamp(top_k, n)
  IN IF k < 0 \/ k > n
       THEN {Err("topk: k out of range")}    \* torch.topk raises
       ELSE IF k = 0
         THEN {Err("IndexError")}            \* results[0] of an empty list
         ELSE { [ok |-> TRUE, error |-> "",
                 predicted |-> <<Results(probs, idxs, labels)[1]>>,
                 top_k |-> Results(probs, idxs, labels)] : idxs \in TopK(probs, k) }

ProbVectors(n) == [0..(n - 1) -> 1..MaxProb]
TopKs == (-1)..(MaxClasses + 1)

NoCall == [probs |-> <<>>, top_k |-> 0]
NoPred == Err("")

\* one call of predict_pil, on the arguments drawn at the start
PredictPil ==
  /\ result = NoPred
  /\ result' \in predict_pil(call.probs, call.top_k, idx_to_style)
  /\ UNCHANGED <<svcVars, artworks, call, seedVars>>

\* ------------------------------------------------------------ HTTP service
NULL == "NULL"                                \* Python None / SQL NULL

Absent == [state |-> "absent", classes |-> 0]
Empty == [state |-> "empty", classes |-> 0]
Partial == [state |-> "partial", classes |-> 0]
Full(c) == [state |-> "full", classes |-> c]  \* a complete state dict, c classes

NoModel == [loaded |-> FALSE, out_features |-> 0]
NoReq == [id |-> 0, ctype |-> "", img |-> 0, top_k |-> 0]

NoQuery == [style |-> "", limit |-> 0, exclude_id |-> NULL]

Resp(endpoint, status, detail) ==
  [endpoint |-> endpoint, status |-> status, detail |-> detail, ctype |-> "",
   pred |-> NoPred, labels |-> <<>>, query |-> NoQuery, items |-> <<>>]
NoResp == Resp("", 0, "")

\* content types sent by clients
ContentTypes == {"image/jpeg", "image/png", "image/webp", "text/plain", "image/gif"}
\* faulty variant of AllowedTypes: every content type is let through
AllowedTypesAll == ContentTypes
\* the set predict_style tests file.content_type against
AllowedTypes == {"image/jpeg", "image/png", "image/webp"}

\* Uploaded files: 0 is a file Image.open rejects, the others are images.
DefaultTopK == 5
\* the (file, top_k) pairs sent by clients of the service: an unreadable file,
\* an image, an image with top_k=0
Uploads == {<<0, DefaultTopK>>, <<1, DefaultTopK>>, <<1, 0>>}
\* the softmax output of the loaded network on image img
Forward(img, n) == [i \in 0..(n - 1) |-> ((i * img) % MaxProb) + 1]

NumLabels == Cardinality(DOMAIN idx_to_style)
Idle == gm_pc = "idle"   \* the event loop is not inside a get_model call

PredictResp(r, res) ==
  [Resp("predict-style", IF res.ok THEN 200 ELSE 500, res.error)
     EXCEPT !.ctype = r.ctype, !.pred = res]
ErrorResp(r, status, detail) ==
  [Resp("predict-style", status, detail) EXCEPT !.ctype = r.ctype]

\* return predict_pil(model, img, top_k, idx_to_style), to the handler of r
Answer(r) ==
  \E res \in predict_pil(Forward(r.img, NumLabels), r.top_k, idx_to_style) :
     resp' = PredictResp(r, res)

FreeId == CHOOSE i \in 1..MaxInflight : \A q \in pending : q.id # i

\* predict_style up to `await file.read()`
PredictStart(ctype, img, top_k) ==
  /\ Idle
  /\ IF ctype \notin AllowedTypes
       THEN /\ resp' = ErrorResp([NoReq EXCEPT !.ctype = ctype], 400,
                                 "Unsupported file type")
            /\ UNCHANGED pending
       ELSE /\ Cardinality(pending) < MaxInflight
            /\ pending' = pending \cup
                 {[id |-> FreeId, ctype |-> ctype, img |-> img, top_k |-> top_k]}
            /\ resp' = NoResp
  /\ UNCHANGED <<idx_to_style, MODEL_URL, remote, fs_model, fs_tmp, _model, gm_pc,
                 gm_req, loads, DATABASE_URL, artworks, pureVars, seedVars>>

\* faulty variant of Memoized: the singleton is never reused
MemoizedNever == FALSE
\* get_model, first lines: if _model is not None: return _model
Memoized == _model.loaded

\* predict_style from Image.open on, up to the call of ensure_model_file
PredictResume(r) ==
  /\ Idle
  /\ r \in pending
  /\ pending' = pending \ {r}
  /\ IF r.img = 0
       THEN /\ resp' = ErrorResp(r, 400, "Invalid image")
            /\ UNCHANGED <<gm_pc, gm_req>>
       ELSE IF Memoized
         THEN /\ Answer(r)
              /\ UNCHANGED <<gm_pc, gm_req>>
         ELSE /\ gm_pc' = "ensure"
              /\ gm_req' = r
              /\ resp' = NoResp
  /\ UNCHANGED <<idx_to_style, MODEL_URL, remote, fs_model, fs_tmp, _model, loads,
                 DATABASE_URL, artworks, pureVars, seedVars>>

\* an exception leaves get_model: the handler of gm_req answers 500
Raise(detail) ==
  /\ resp' = ErrorResp(gm_req, 500, detail)
  /\ gm_pc' = "idle"
  /\ gm_req' = NoReq

ExistsNonEmpty(f) == f.state \in {"partial", "full"}

\* ensure_model_file: mkdir, the early return, the MODEL_URL check
EnsureCheck ==
  /\ gm_pc = "ensure"
  /\ IF ExistsNonEmpty(fs_model)
       THEN gm_pc' = "load" /\ resp' = NoResp /\ UNCHANGED gm_req
       ELSE IF MODEL_URL = ""
         THEN Raise("MODEL_URL env var is not set")
         ELSE gm_pc' = "unlink" /\ resp' = NoResp /\ UNCHANGED gm_req
  /\ UNCHANGED <<idx_to_style, MODEL_URL, remote, fs_model, fs_tmp, _model, pending,
                 loads, DATABASE_URL, artworks, pureVars, seedVars>>

\* ensure_model_file: if tmp_path.exists(): tmp_path.unlink()
UnlinkTmp ==
  /\ gm_pc = "unlink"
  /\ fs_tmp' = Absent
  /\ gm_pc' = "retrieve"
  /\ resp' = NoResp
  /\ UNCHANGED <<idx_to_style, MODEL_URL, remote, fs_model, _model, gm_req, pending,
                 loads, DATABASE_URL, artworks, pureVars, seedVars>>

\* faulty variant of WriteTmp: the download goes straight to MODEL_PATH
WriteFinal(f) == fs_model' = f /\ UNCHANGED fs_tmp
\* where urlretrieve writes: tmp_path
WriteTmp(f) == fs_tmp' = f /\ UNCHANGED fs_model

\* urlretrieve(MODEL_URL, tmp_path): the file is created, then filled block by
\* block; it raises when the connection fails or the content is too short.
Retrieve ==
  /\ gm_pc = "retrieve"
  /\ \/ /\ fs_tmp.state = "absent"
        /\ WriteTmp(Empty)
        /\ resp' = NoResp /\ UNCHANGED <<gm_pc, gm_req>>
     \/ /\ fs_tmp.state \in {"empty", "partial"}
        /\ WriteTmp(Partial)
        /\ resp' = NoResp /\ UNCHANGED <<gm_pc, gm_req>>
     \/ /\ fs_tmp.state \in {"empty", "partial"}
        /\ WriteTmp(Full(remote))
        /\ gm_pc' = "replace" /\ resp' = NoResp /\ UNCHANGED gm_req
     \/ /\ Raise("URLError")
        /\ UNCHANGED <<fs_tmp, fs_model>>
  /\ UNCHANGED <<idx_to_style, MODEL_URL, remote, _model, pending, loads,
                 DATABASE_URL, artworks, pureVars, seedVars>>

\* tmp_path.replace(MODEL_PATH): an atomic rename
Replace ==
  /\ gm_pc = "replace"
  /\ fs_model' = fs_tmp
  /\ fs_tmp' = Absent
  /\ gm_pc' = "load"
  /\ resp' = NoResp
  /\ UNCHANGED <<idx_to_style, MODEL_URL, remote, _model, gm_req, pending, loads,
                 DATABASE_URL, artworks, pureVars, seedVars>>

\* faulty variant of load_model: load_state_dict(strict=False) on a classifier
\* of another size
load_modelLenient(f, num_classes) ==
  IF f.state = "full"
    THEN [loaded |-> TRUE, out_features |-> num_classes]
    ELSE [loaded |-> FALSE, out_features |-> 0]

\* model.load_model(weights_path, num_classes): the classifier is rebuilt with
\* num_classes outputs and the state dict is loaded into it; torch.load raises
\* on a truncated file and load_state_dict on a classifier of another size.
load_model(f, num_classes) ==
  IF f.state = "full" /\ f.classes = num_classes
    THEN [loaded |-> TRUE, out_features |-> num_classes]
    ELSE NoModel

\* get_model from load_model on, and the rest of predict_style
Load ==
  /\ gm_pc = "load"
  /\ LET model == load_model(fs_model, NumLabels) IN
       \/ /\ model.loaded
          /\ loads' = loads + 1
          /\ IF NumLabels = model.out_features       \* the assert
               THEN /\ _model' = model
                    /\ Answer(gm_req)
               ELSE /\ resp' = ErrorResp(gm_req, 500, "AssertionError")
                    /\ UNCHANGED _model
       \/ /\ ~model.loaded
          /\ resp' = ErrorResp(gm_req, 500, "load_model failed")
          /\ UNCHANGED <<_model, loads>>
  /\ gm_pc' = "idle"
  /\ gm_req' = NoReq
  /\ UNCHANGED <<idx_to_style, MODEL_URL, remote, fs_model, fs_tmp, pending,
                 DATABASE_URL, artworks, pureVars, seedVars>>

\* the process dies at any point and is started again: module state is built
\* anew (idx_to_style from the same file), the files stay as they are.
Crash ==
  /\ _model' = NoModel
  /\ gm_pc' = "idle"
  /\ gm_req' = NoReq
  /\ pending' = {}
  /\ loads' = 0
  /\ resp' = NoResp
  /\ UNCHANGED <<idx_to_style, MODEL_URL, remote, fs_model, fs_tmp, DATABASE_URL,
                 artworks, pureVars, seedVars>>

Health ==
  /\ Idle
  /\ resp' = Resp("health", 200, "ok")
  /\ UNCHANGED <<idx_to_style, MODEL_URL, remote, fs_model, fs_tmp, _model, gm_pc,
                 gm_req, pending, loads, DATABASE_URL, artworks, pureVars, seedVars>>

Styles ==
  /\ Idle
  /\ resp' = [Resp("styles", 200, "") EXCEPT !.labels = idx_to_style]
  /\ UNCHANGED <<idx_to_style, MODEL_URL, remote, fs_model, fs_tmp, _model, gm_pc,
                 gm_req, pending, loads, DATABASE_URL, artworks, pureVars, seedVars>>

\* ---------------------------------------------------------------- /gallery
LimitMin == 1
LimitMax == 60

Row(id, title, artist, style, image_url) ==
  [id |-> id, title |-> title, artist |-> artist, style |-> style,
   image_url |-> image_url]

Injective(s) == \A i, j \in DOMAIN s : i # j => s[i] # s[j]

\* faulty variant of Where: exclude_id is ignored
WhereNoExclude(row, style, exclude_id) == row.style = style
\* WHERE style = %s AND (%s IS NULL OR id <> %s)
Where(row, style, exclude_id) ==
  /\ row.style = style
  /\ (exclude_id = NULL \/ row.id # exclude_id)

\* LIMIT %s
Limit(limit, n) == Min(limit, n)

\* the SELECT of gallery: the row lists ORDER BY RANDOM() LIMIT may give
Select(table, style, exclude_id, limit) ==
  LET match == {id \in DOMAIN table : Where(table[id], style, exclude_id)}
      m == Limit(limit, Cardinality(match))
  IN {[i \in 1..m |-> table[s[i]]] : s \in {t \in [1..m -> match] : Injective(t)}}

GalleryResp(status, detail, q) == [Resp("gallery", status, detail) EXCEPT !.query = q]

Gallery(style, limit, exclude_id) ==
  /\ Idle
  /\ LET q == [style |-> style, limit |-> limit, exclude_id |-> exclude_id] IN
       IF limit < LimitMin \/ limit > LimitMax
         THEN resp' = GalleryResp(422, "validation", q)      \* Query(ge=1, le=60)
         ELSE IF DATABASE_URL = ""
           THEN resp' = GalleryResp(500, "DATABASE_URL env var is not set", q)
           ELSE \/ resp' = GalleryResp(500, "DB query failed", q)
                \/ \E rows \in Select(artworks, style, exclude_id, limit) :
                     resp' = [GalleryResp(200, "", q) EXCEPT !.items = rows]
  /\ UNCHANGED <<idx_to_style, MODEL_URL, remote, fs_model, fs_tmp, _model, gm_pc,
                 gm_req, pending, loads, DATABASE_URL, artworks, pureVars, seedVars>>

\* ------------------------------------------------------------------ seeder
\* ClassLabel names of the dataset, by integer code
id_to_style == <<"Impressionism", "Pop_Art", "Ukiyo_e">>
id_to_artist == <<"vincent-van-gogh", "m.c.-escher">>
DsStyles == {id_to_style[i] : i \in DOMAIN id_to_style}

\* slugify: lower-case, runs of other characters to "_", "_" stripped at the ends
slugify(x) ==
  CASE x = "Impressionism" -> "impressionism"
    [] x = "Pop_Art" -> "pop_art"
    [] x = "Ukiyo_e" -> "ukiyo_e"

\* sha1(JPEG bytes).hexdigest()[:16] of the images of the slice
Sha1Hex(img) == IF img = 1 THEN "3f2a9c0d1e4b5a67" ELSE "b81c44e0a9d2f3c5"

compute_id(style, img) == slugify(style) \o "_" \o Sha1Hex(img)

prettify_artist(raw) ==
  CASE raw = "vincent-van-gogh" -> "Vincent van Gogh"
    [] raw = "m.c.-escher" -> "M.C. Escher"

\* res["secure_url"] of the upload with this public id
SecureUrl(public_id) == "https://res.cloudinary.com/wikiart/" \o public_id

\* a dataset record: style and artist are ClassLabel codes (0: the key is
\* missing), image is 0 when missing
Record(style, image, artist) == [style |-> style, image |-> image, artist |-> artist]
RecordSet ==
  {Record(0, 1, 1), Record(1, 0, 1), Record(1, 1, 1), Record(1, 2, 2),
   Record(2, 1, 0), Record(3, 1, 1)}

NoLast == [kind |-> "", id |-> "", style |-> ""]
Last(kind, id, style) == [kind |-> kind, id |-> id, style |-> style]
ZeroCounts == [s \in DsStyles |-> 0]

\* if c >= PER_STYLE: continue
QuotaReached(c) == c >= PER_STYLE

\* INSERT ... ON CONFLICT (id) DO UPDATE SET artist, style, image_url =
\* COALESCE(EXCLUDED.image_url, artworks.image_url); title is kept on conflict
Upsert(table, row) ==
  LET old == IF row.id \in DOMAIN table THEN table[row.id] ELSE row
      new == [row EXCEPT !.title = old.title]
  IN [id \in DOMAIN table \cup {row.id} |-> IF id = row.id THEN new ELSE table[id]]

\* faulty variant of Counted: only newly inserted rows are counted
CountedNewOnly(style) ==
  IF last'.kind = "inserted"
    THEN [saved_per_style EXCEPT ![style] = @ + 1]
    ELSE saved_per_style
\* the counter after a record was upserted: saved_per_style[style] = c + 1
Counted(style) == [saved_per_style EXCEPT ![style] = @ + 1]

\* faulty variant of UploadFailed: the record goes on to the upsert without a URL
UploadFailedWrites(row) ==
  /\ txn' = Upsert(txn, [row EXCEPT !.image_url = NULL])
  /\ UNCHANGED <<cloud, saved_per_style>>
\* the upload raised: print and continue
UploadFailed(row) == UNCHANGED <<txn, cloud, saved_per_style>>

\* faulty variant of Stored: the lookup never finds the id
StoredNever(id) == FALSE
\* the lookup of the id: SELECT image_url FROM artworks WHERE id = %s
Stored(id) == id \in DOMAIN txn

\* one iteration of the loop over the dataset
Iterate ==
  /\ pc = "loop"
  /\ pos <= Len(ds)
  /\ pos' = pos + 1
  /\ LET ex == ds[pos] IN
       IF ex.style = 0
         THEN /\ last' = Last("no_style", "", "")
              /\ UNCHANGED <<txn, cloud, saved_per_style, uploads, failed>>
         ELSE
           LET style == id_to_style[ex.style] IN
           IF whitelist # {} /\ style \notin whitelist
             THEN /\ last' = Last("not_whitelisted", "", style)
                  /\ UNCHANGED <<txn, cloud, saved_per_style, uploads, failed>>
           ELSE IF QuotaReached(saved_per_style[style])
             THEN /\ last' = Last("quota", "", style)
                  /\ UNCHANGED <<txn, cloud, saved_per_style, uploads, failed>>
           ELSE IF ex.image = 0
             THEN /\ last' = Last("no_image", "", style)
                  /\ UNCHANGED <<txn, cloud, saved_per_style, uploads, failed>>
           ELSE
             LET art_id == compute_id(style, ex.image)
                 artist == IF ex.artist = 0 THEN NULL
                           ELSE prettify_artist(id_to_artist[ex.artist])
                 row == Row(art_id, NULL, artist, style, SecureUrl(art_id))
             IN IF Stored(art_id)
                  THEN /\ last' = Last("updated", art_id, style)
                       /\ txn' = Upsert(txn, [row EXCEPT !.image_url = txn[art_id].image_url])
                       /\ saved_per_style' = Counted(style)
                       /\ UNCHANGED <<cloud, uploads, failed>>
                  ELSE /\ uploads' = uploads + 1
                       /\ \/ /\ last' = Last("inserted", art_id, style)
                             /\ cloud' = cloud \cup {art_id}
                             /\ txn' = Upsert(txn, row)
                             /\ saved_per_style' = Counted(style)
                             /\ UNCHANGED failed
                          \/ /\ last' = Last("upload_failed", art_id, style)
                             /\ failed' = TRUE
                             /\ UploadFailed(row)
  /\ UNCHANGED <<svcVars, artworks, pureVars, ds, whitelist, run, pc, prev>>

\* main up to the loop: ensure_table, the empty counter, the transaction opens
StartRun ==
  /\ pc \in {"idle", "done", "aborted"}
  /\ run < MaxRuns
  /\ run' = run + 1
  /\ pc' = "loop"
  /\ pos' = 1
  /\ saved_per_style' = ZeroCounts
  /\ txn' = artworks
  /\ uploads' = 0
  /\ failed' = FALSE
  /\ prev' = [status |-> pc, failed |-> failed]
  /\ last' = NoLast
  /\ UNCHANGED <<svcVars, artworks, pureVars, ds, whitelist, cloud>>

\* what leaving `with conn:` stores when the loop has ended
Commit == txn
\* ... and when the run is cancelled or an exception leaves the block
Rollback == artworks

\* the loop ends: `with conn:` commits the transaction
Finish ==
  /\ pc = "loop"
  /\ pos > Len(ds)
  /\ artworks' = Commit
  /\ pc' = "done"
  /\ last' = NoLast
  /\ UNCHANGED <<svcVars, pureVars, ds, whitelist, run, pos, saved_per_style, txn,
                 cloud, uploads, failed, prev>>

\* the run is cancelled, or an exception leaves the loop: `with conn:` rolls
\* the transaction back (so does the server when the process is killed)
Abort ==
  /\ pc = "loop"
  /\ artworks' = Rollback
  /\ txn' = Rollback
  /\ pc' = "aborted"
  /\ last' = NoLast
  /\ UNCHANGED <<svcVars, pureVars, ds, whitelist, run, pos, saved_per_style,
                 cloud, uploads, failed, prev>>

\* ---------------------------------------------------------- specifications
ServiceTable ==
  LET a == "impressionism_3f2a9c0d1e4b5a67"
      b == "cubism_b81c44e0a9d2f3c5"
  IN [id \in {a, b} |->
        Row(id, NULL, "Vincent van Gogh",
            IF id = a THEN "Impressionism" ELSE "Cubism", SecureUrl(id))]

GalleryIds ==
  {"impressionism_3f2a9c0d1e4b5a67", "impressionism_b81c44e0a9d2f3c5",
   "cubism_3f2a9c0d1e4b5a67", "cubism_b81c44e0a9d2f3c5"}
GalleryStyles == {"Impressionism", "Cubism"}
\* every artworks table of at most MaxRows rows: ids are unique, style and
\* image_url are NOT NULL
Tables ==
  UNION { [ids -> {Row("", NULL, "Vincent van Gogh", s, "https://res.cloudinary.com/x")
                     : s \in GalleryStyles}]
          : ids \in {S \in SUBSET GalleryIds : Cardinality(S) <= MaxRows} }
WithIds(t) == [id \in DOMAIN t |-> [t[id] EXCEPT !.id = id]]

\* class counts of the label maps and weight files the service is deployed with
ServiceClasses == (MaxClasses - 1)..MaxClasses

InitService ==
  /\ idx_to_style \in {load_label_map(n) : n \in ServiceClasses}
  /\ MODEL_URL \in {"", "https://weights.example/efficientnet_b3_best.pt"}
  /\ remote \in ServiceClasses
  /\ fs_model \in {Absent, Empty} \cup {Full(c) : c \in ServiceClasses}
  /\ fs_tmp = Absent
  /\ _model = NoModel
  /\ gm_pc = "idle"
  /\ gm_req = NoReq
  /\ pending = {}
  /\ loads = 0
  /\ resp = NoResp
  /\ DATABASE_URL = "postgres://db"

InitPure == call = NoCall /\ result = NoPred

InitSeeder ==
  /\ ds \in [1..DsLen -> RecordSet]
  /\ whitelist \in {{}, {"Impressionism", "Pop_Art"}}
  /\ run = 0
  /\ pc = "idle"
  /\ pos = 1
  /\ saved_per_style = ZeroCounts
  /\ txn = <<>>
  /\ cloud = {}
  /\ uploads = 0
  /\ failed = FALSE
  /\ prev = [status |-> "none", failed |-> FALSE]
  /\ last = NoLast

\* the values of the variables a specification does not use
FixService ==
  /\ MODEL_URL = ""
  /\ remote = MaxClasses
  /\ fs_model = Absent
  /\ fs_tmp = Absent
  /\ _model = NoModel
  /\ gm_pc = "idle"
  /\ gm_req = NoReq
  /\ pending = {}
  /\ loads = 0
  /\ resp = NoResp
FixSeeder ==
  /\ ds = <<>>
  /\ whitelist = {}
  /\ run = 0
  /\ pc = "idle"
  /\ pos = 1
  /\ saved_per_style = ZeroCounts
  /\ txn = <<>>
  /\ cloud = {}
  /\ uploads = 0
  /\ failed = FALSE
  /\ prev = [status |-> "none", failed |-> FALSE]
  /\ last = NoLast

Init == InitService /\ artworks = ServiceTable /\ InitPure /\ FixSeeder

PredictStartAny ==
  \E ctype \in ContentTypes, u \in Uploads : PredictStart(ctype, u[1], u[2])
PredictResumeAny == \E r \in pending : PredictResume(r)
GalleryOne ==
  \E limit \in {0, 1}, exclude_id \in {NULL} : Gallery("Impressionism", limit, exclude_id)
GalleryAny ==
  \E style \in GalleryStyles \cup {"Ukiyo_e"},
     limit \in {0, 1, 2, MaxRows, LimitMax, LimitMax + 1},
     exclude_id \in GalleryIds \cup {NULL} :
     Gallery(style, limit, exclude_id)

Next ==
  \/ PredictStartAny
  \/ PredictResumeAny
  \/ EnsureCheck
  \/ UnlinkTmp
  \/ Retrieve
  \/ Replace
  \/ Load
  \/ Crash
  \/ Health
  \/ Styles
  \/ GalleryOne

Spec == Init /\ [][Next]_vars

InitPredict ==
  /\ idx_to_style \in {load_label_map(n) : n \in 1..MaxClasses}
  /\ FixService
  /\ DATABASE_URL = ""
  /\ artworks = <<>>
  /\ call \in [probs : ProbVectors(NumLabels), top_k : TopKs]
  /\ result = NoPred
  /\ FixSeeder

SpecPredict == InitPredict /\ [][PredictPil]_vars

InitGallery ==
  /\ idx_to_style = load_label_map(MaxClasses)
  /\ FixService
  /\ DATABASE_URL \in {"", "postgres://db"}
  /\ artworks \in {WithIds(t) : t \in Tables}
  /\ InitPure
  /\ FixSeeder

SpecGallery == InitGallery /\ [][GalleryAny]_vars

InitSeed ==
  /\ idx_to_style = load_label_map(MaxClasses)
  /\ FixService
  /\ DATABASE_URL = "postgres://db"
  /\ artworks = <<>>
  /\ InitPure
  /\ InitSeeder

NextSeeder ==
  \/ StartRun
  \/ Iterate
  \/ Finish
  \/ Abort

SpecSeeder == InitSeed /\ [][NextSeeder]_vars

\* ------------------------------------------------------------- properties
SupportedTypes == {"image/jpeg", "image/png", "image/webp"}
IsPredictResp(r) == r.endpoint = "predict-style"

\* C1: a /predict-style request whose content type is not image/jpeg, image/png
\* or image/webp is answered 400 in the step that receives it, and that step
\* leaves _model, the load count, both weight files, the get_model position and
\* the suspended handlers as they were; no handler ever goes on with such a file.
C1_UnsupportedNeverReachesModel ==
  /\ [](/\ \A r \in pending : r.ctype \in SupportedTypes
        /\ (gm_pc # "idle" => gm_req.ctype \in SupportedTypes)
        /\ (IsPredictResp(resp) /\ resp.ctype \notin SupportedTypes
              => resp.status = 400 /\ ~resp.pred.ok))
  /\ [][(IsPredictResp(resp') /\ resp'.ctype \notin SupportedTypes)
          => /\ resp'.status = 400
             /\ gm_pc = "idle"
             /\ UNCHANGED <<_model, loads, fs_model, fs_tmp, gm_pc, gm_req, pending>>]_vars

C1_Witness ==
  /\ resp.detail = "Unsupported file type"
  /\ resp.ctype = "text/plain"
  /\ _model.loaded
  /\ pending # {}

\* the class count of the weights the process would load, 0 when there are none
WeightsClasses ==
  IF fs_model.state = "full" THEN fs_model.classes
  ELSE IF MODEL_URL # "" THEN remote ELSE 0
Mismatch == WeightsClasses # 0 /\ WeightsClasses # NumLabels

SameProcess == ~(loads' = 0 /\ ~_model'.loaded /\ pending' = {} /\ gm_pc' = "idle"
                  /\ resp' = NoResp)

\* C7: in one process load_model returns at most once; once _model is set it is
\* never replaced, nothing is loaded or downloaded again and no handler enters
\* ensure_model_file; a get_model call that ends without a loaded model leaves
\* _model unset, and the next valid request enters ensure_model_file again.
C7_LoadedOnce ==
  /\ [](/\ loads <= 1
        /\ (_model.loaded <=> loads = 1)
        /\ (_model.loaded => gm_pc = "idle"))
  /\ [][(_model.loaded /\ SameProcess)
          => UNCHANGED <<_model, loads, fs_model, fs_tmp, gm_pc>>]_vars
  /\ [][(gm_pc # "idle" /\ gm_pc' = "idle" /\ loads' = loads) => ~_model'.loaded]_vars
  /\ [][(/\ gm_pc = "idle" /\ ~_model.loaded /\ SameProcess
         /\ Cardinality(pending') < Cardinality(pending)
         /\ resp'.status # 400)
          => gm_pc' = "ensure"]_vars

C7_Witness ==
  /\ _model.loaded
  /\ loads = 1
  /\ IsPredictResp(resp)
  /\ resp.status = 200
  /\ Cardinality(pending) = MaxInflight - 1

Called == result # NoPred
Sorted(list) == \A i, j \in DOMAIN list : i < j => list[i].prob >= list[j].prob
\* the entries of the list are distinct classes with their own probability and name
Faithful(list) ==
  /\ \A i, j \in DOMAIN list : i # j => list[i].index # list[j].index
  /\ \A i \in DOMAIN list :
       /\ list[i].index \in DOMAIN call.probs
       /\ list[i].prob = call.probs[list[i].index]
       /\ list[i].style = idx_to_style[list[i].index]
TopKShape(k) ==
  /\ result.ok
  /\ Len(result.top_k) = Min(k, NumLabels)
  /\ Sorted(result.top_k)
  /\ Len(result.top_k) >= 1
  /\ result.predicted = <<result.top_k[1]>>

\* C2 as stated: for any integer top_k, predict_pil returns a top_k list of
\* length min(top_k, number of classes), in non-increasing order of
\* probability, whose first element is the 'predicted' entry.
C2_AnyTopK == Called => TopKShape(call.top_k)

\* C2 amended: that holds for every top_k >= 1 (the list then holds the classes
\* of highest probability); for top_k <= 0 predict_pil raises and returns nothing.
C2_PositiveTopK ==
  Called =>
    IF call.top_k >= 1
      THEN /\ TopKShape(call.top_k)
           /\ Faithful(result.top_k)
           /\ \A c \in DOMAIN call.probs :
                (\A i \in DOMAIN result.top_k : result.top_k[i].index # c)
                  => \A i \in DOMAIN result.top_k : call.probs[c] <= result.top_k[i].prob
      ELSE ~result.ok

C2_Witness ==
  /\ Called
  /\ call.top_k > NumLabels
  /\ NumLabels = MaxClasses
  /\ result.ok
  /\ Len(result.top_k) = NumLabels
  /\ result.top_k[1].prob = result.top_k[2].prob
  /\ result.top_k[2].prob > result.top_k[3].prob

Matching(style) == {id \in DOMAIN artworks : artworks[id].style = style}

\* C3: a successful /gallery response to (style, limit in 1..60, exclude_id)
\* holds at most limit items, each a row of the table of that style, none with
\* the excluded id, none twice; without exclude_id it holds min(limit, number of
\* rows of the style) items, so no row of the style is left out for its id.
C3_GalleryItems ==
  (resp.endpoint = "gallery" /\ resp.status = 200) =>
    LET q == resp.query
        items == resp.items
    IN /\ q.limit \in 1..60
       /\ Len(items) <= q.limit
       /\ \A i \in DOMAIN items :
            /\ items[i].id \in DOMAIN artworks
            /\ items[i] = artworks[items[i].id]
            /\ items[i].style = q.style
            /\ (q.exclude_id # NULL => items[i].id # q.exclude_id)
       /\ \A i, j \in DOMAIN items : i # j => items[i].id # items[j].id
       /\ (q.exclude_id = NULL
             => Len(items) = Min(q.limit, Cardinality(Matching(q.style))))
       /\ (q.exclude_id # NULL
             => Len(items) = Min(q.limit, Cardinality(Matching(q.style) \ {q.exclude_id})))

C3_Witness ==
  /\ resp.endpoint = "gallery"
  /\ resp.status = 200
  /\ resp.query.exclude_id \in Matching(resp.query.style)
  /\ Cardinality(Matching(resp.query.style)) = MaxRows
  /\ resp.query.limit = 2
  /\ Len(resp.items) = 2

\* ------------------------------------------------------- seeder properties
Iteration == pos' = pos + 1                  \* a step of the loop body
UploadCall == uploads' = uploads + 1         \* ... that calls upload_to_cloudinary
Upserted(kind) == kind \in {"inserted", "updated"}
SameIds == DOMAIN artworks' = DOMAIN artworks
\* the loop of a run that follows a run that ended normally ends normally
SecondRunCommits == pc = "loop" /\ pc' = "done" /\ prev.status = "done"

ValidRows(table) ==
  \A id \in DOMAIN table :
    /\ table[id].id = id
    /\ table[id].image_url # NULL
    /\ table[id].image_url = SecureUrl(id)
    /\ id \in cloud

\* C5: a record whose upload fails writes nothing and the loop goes on with the
\* next record; every row, written or committed, carries the URL that a
\* successful upload of its id returned.
C5_FailedUploadSkipped ==
  /\ [](ValidRows(txn) /\ ValidRows(artworks))
  /\ [][(Iteration /\ last'.kind = "upload_failed")
          => /\ UNCHANGED <<txn, artworks, cloud, saved_per_style>>
             /\ last'.id \notin DOMAIN txn'
             /\ pc' = "loop"]_vars

C5_Witness ==
  /\ pc = "done"
  /\ failed
  /\ last.kind = ""
  /\ uploads = DsLen
  /\ Cardinality(DOMAIN artworks) = 1

\* C9 as stated: the rows of the records a cancelled run uploaded and upserted
\* remain stored.
C9_CancelledRunKeepsRows == pc = "aborted" => cloud \subseteq DOMAIN artworks

\* the style of the record the loop is at, "" when the record is skipped before
\* the quota is looked at
StyleAt(i) ==
  IF ds[i].style = 0 THEN ""
  ELSE IF whitelist # {} /\ id_to_style[ds[i].style] \notin whitelist THEN ""
  ELSE id_to_style[ds[i].style]

\* C10: the counter of a style never exceeds PER_STYLE; it goes up by one for
\* every record that is upserted, whether its id was stored before or not, and
\* is left alone otherwise; a record of a style whose counter has reached
\* PER_STYLE is skipped without upload or database write.
C10_QuotaCountsAttempts ==
  /\ [](\A s \in DsStyles : saved_per_style[s] <= PER_STYLE)
  /\ [][(Iteration /\ Upserted(last'.kind))
          => saved_per_style' = [saved_per_style EXCEPT ![last'.style] = @ + 1]]_vars
  /\ [][(Iteration /\ ~Upserted(last'.kind)) => UNCHANGED <<saved_per_style, txn>>]_vars
  /\ [][(Iteration /\ StyleAt(pos) # "" /\ saved_per_style[StyleAt(pos)] >= PER_STYLE)
          => /\ last'.kind = "quota"
             /\ UNCHANGED <<txn, cloud, uploads, saved_per_style>>]_vars

C10_Witness ==
  /\ last.kind = "quota"
  /\ uploads = 0
  /\ run = 2
  /\ saved_per_style[last.style] = PER_STYLE

====
